---- MODULE Spec2Model ----
(***************************************************************************)
(* Model of gremlins' "unleash" command (cmd/unleash.go) and of the        *)
(* coverage gatherer (pkg/coverage): runUnleash with its runner and        *)
(* cancellation-watcher goroutines, the stages of run and Coverage.Run,    *)
(* Coverage.parse / removeModuleFromPath, and the flag name normalizer.    *)
(*                                                                         *)
(* Go strings are modelled as sequences of one-character strings, so that  *)
(* strings.ReplaceAll and filepath.Rel are computed character by character.*)
(***************************************************************************)
EXTENDS Integers, Sequences, FiniteSets, TLC

VARIABLES
    \* ---- runUnleash (main goroutine) ----
    pc,            \* position of runUnleash
    args,          \* positional arguments of the command
    cwd,           \* process working directory
    currPath,      \* changePath: cp
    runDir,        \* changePath: rd
    workDir,       \* temporary work root: "none" | "created" | "removed"
    wg,            \* sync.WaitGroup counter
    doneCalls,     \* number of wg.Done calls
    cancelled,     \* captured variable written by onCancel
    sawCancelled,  \* value of cancelled that runUnleash read at line 114
    err,           \* captured err variable
    results,       \* captured results variable (number of mutants it holds)
    retVal,        \* value returned by the RunE closure
    reported,      \* <<r>> once report.Do(r) was called, <<>> before
    restore,       \* cleanUp: outcome of os.Chdir(rd): "none" | "ok" | "failed"
    removeTried,   \* cleanUp: os.RemoveAll(wd) was called
    \* ---- context ----
    ctxDone,       \* ctx (the context given to runUnleash) is cancelled
    cancelCalled,  \* cancel() of the derived context c was called
    cancelInRun,   \* ctx was cancelled while run was executing
    \* ---- runWithCancel (runner goroutine) and run / Coverage.Run ----
    rpc,           \* position of the runner goroutine
    stages,        \* the stages of run started so far, in order
    processed,     \* mutator: mutants tested so far
    now,           \* wall clock
    runStart,      \* clock when Coverage.Run was entered
    start,         \* executeCoverage: start
    elapsed,       \* executeCoverage: returned duration
    covElapsed,    \* Result.Elapsed returned by Coverage.Run
    dlDur,         \* time the module download took
    testDur,       \* time the coverage test run took
    \* ---- watcher goroutine of runWithCancel ----
    wpc,
    \* ---- Coverage.parse ----
    profiles,      \* result of cover.ParseProfilesFromReader
    status,        \* the Profile built by parse
    parsed,
    \* ---- Coverage.removeModuleFromPath ----
    fileName, modName, pkgDir, relPath, pathDone,
    \* ---- flag name normalization ----
    flagName, normName, normCalls

runVars == <<pc, args, cwd, currPath, runDir, workDir, wg, doneCalls, cancelled,
             sawCancelled, err, results, retVal, reported, restore, removeTried,
             ctxDone, cancelCalled, cancelInRun, rpc, stages,
             processed, now, runStart, start, elapsed, covElapsed, dlDur, testDur, wpc>>
parseVars == <<profiles, status, parsed>>
pathVars == <<fileName, modName, pkgDir, relPath, pathDone>>
flagVars == <<flagName, normName, normCalls>>
vars == <<runVars, parseVars, pathVars, flagVars>>

(***************************************************************************)
(* Bounds                                                                  *)
(***************************************************************************)
TotalMutants == 2   \* mutants the mutator would test in a full run
MaxDur == 2         \* longest duration of one external command, in ticks
MaxLen == 3         \* longest flag name
MaxDepth == 3       \* deepest file path below the module root, in segments
MaxLine == 2        \* lines a coverage block can start at

(***************************************************************************)
(* Strings                                                                 *)
(***************************************************************************)
SeqsUpTo(S, n) == UNION {[1..k -> S] : k \in 0..n}

IsPrefix(p, s) == Len(p) <= Len(s) /\ SubSeq(s, 1, Len(p)) = p

\* strings.ReplaceAll(s, old, new) for a non-empty old: non-overlapping
\* occurrences, found left to right.
RECURSIVE ReplaceAll(_, _, _)
ReplaceAll(s, old, new) ==
    IF Len(s) < Len(old) THEN s
    ELSE IF IsPrefix(old, s)
         THEN new \o ReplaceAll(SubSeq(s, Len(old) + 1, Len(s)), old, new)
         ELSE <<Head(s)>> \o ReplaceAll(Tail(s), old, new)

\* strings.Split(s, "/")
RECURSIVE SplitAcc(_, _, _)
SplitAcc(s, cur, acc) ==
    IF s = <<>> THEN Append(acc, cur)
    ELSE IF Head(s) = "/" THEN SplitAcc(Tail(s), <<>>, Append(acc, cur))
         ELSE SplitAcc(Tail(s), Append(cur, Head(s)), acc)
Split(s) == SplitAcc(s, <<>>, <<>>)

\* strings.Join(segs, "/")
RECURSIVE Join(_)
Join(segs) ==
    IF segs = <<>> THEN <<>>
    ELSE IF Len(segs) = 1 THEN segs[1]
         ELSE segs[1] \o <<"/">> \o Join(Tail(segs))

RECURSIVE DropEmpty(_)
DropEmpty(segs) ==
    IF segs = <<>> THEN <<>>
    ELSE IF Head(segs) = <<>> \/ Head(segs) = <<".">> THEN DropEmpty(Tail(segs))
         ELSE <<Head(segs)>> \o DropEmpty(Tail(segs))

\* filepath.Clean of a path without ".." elements, as its list of elements
\* (empty and "." elements are dropped; Clean("") is ".", the empty list here).
CleanSegs(p) == DropEmpty(Split(p))

IsSlashed(p) == p # <<>> /\ Head(p) = "/"

RECURSIVE CommonLen(_, _)
CommonLen(a, b) ==
    IF a = <<>> \/ b = <<>> \/ Head(a) # Head(b) THEN 0
    ELSE 1 + CommonLen(Tail(a), Tail(b))

DotDot == <<".", ".">>

\* filepath.Rel(basepath, targpath) on Unix, for paths without ".." elements:
\* [path, ok]. Rel fails, returning "", when exactly one of the two is rooted.
Rel(basepath, targpath) ==
    LET base == CleanSegs(basepath)
        targ == CleanSegs(targpath)
        n == CommonLen(base, targ)
        up == [i \in 1..(Len(base) - n) |-> DotDot]
        down == SubSeq(targ, n + 1, Len(targ))
    IN  IF IsSlashed(basepath) # IsSlashed(targpath) THEN [path |-> <<>>, ok |-> FALSE]
        ELSE IF base = targ THEN [path |-> <<".">>, ok |-> TRUE]
        ELSE [path |-> Join(up \o down), ok |-> TRUE]

(***************************************************************************)
(* Coverage.removeModuleFromPath                                           *)
(***************************************************************************)
\* name without its leading mod+"/", when it has one
StripModuleLeading(name, mod) ==
    IF IsPrefix(mod \o <<"/">>, name)
    THEN SubSeq(name, Len(mod) + 2, Len(name))
    ELSE name

\* strings.ReplaceAll(p.FileName, c.mod.Name+"/", "")
StripModule(name, mod) == ReplaceAll(name, mod \o <<"/">>, <<>>)

\* path, _ = filepath.Rel(c.mod.PkgDir, path): the error is dropped and the
\* path Rel returned ("" on failure) is kept.
removeModuleFromPath(name, mod, pkg) == Rel(pkg, StripModule(name, mod)).path

(***************************************************************************)
(* Coverage.parse                                                          *)
(***************************************************************************)
KeepAllBlocks(b) == TRUE

\* if b.Count == 0 { continue }
KeepBlock(b) == b.Count # 0

\* block := Block{StartLine: ..., StartCol: ..., EndLine: ..., EndCol: ...}
MakeBlock(b) ==
    [StartLine |-> b.StartLine, StartCol |-> b.StartCol,
     EndLine |-> b.EndLine, EndCol |-> b.EndCol]

\* the inner loop of parse over p.Blocks, for the Profile st and the key fn
RECURSIVE AddBlocks(_, _, _)
AddBlocks(st, fn, blocks) ==
    IF blocks = <<>> THEN st
    ELSE LET b == Head(blocks)
             old == IF fn \in DOMAIN st THEN st[fn] ELSE <<>>
             st2 == IF KeepBlock(b)
                    THEN [k \in DOMAIN st \cup {fn} |->
                             IF k = fn THEN Append(old, MakeBlock(b)) ELSE st[k]]
                    ELSE st
         IN  AddBlocks(st2, fn, Tail(blocks))

\* the outer loop of parse over the profiles
RECURSIVE ParseFrom(_, _, _, _)
ParseFrom(st, ps, mod, pkg) ==
    IF ps = <<>> THEN st
    ELSE ParseFrom(AddBlocks(st, removeModuleFromPath(Head(ps).FileName, mod, pkg),
                             Head(ps).Blocks),
                   Tail(ps), mod, pkg)

EmptyProfile == [k \in {} |-> <<>>]

parse(ps, mod, pkg) == ParseFrom(EmptyProfile, ps, mod, pkg)

(***************************************************************************)
(* Flag name normalization (setFlagsOnCmd)                                 *)
(***************************************************************************)
OnlyDot == <<".">>

\* from := []string{".", "_"}
NormalizeFrom == <<".", "_">>

\* to := "-"
NormalizeTo == "-"

\* for _, sep := range from { name = strings.ReplaceAll(name, sep, to) }
RECURSIVE NormalizeLoop(_, _)
NormalizeLoop(name, from) ==
    IF from = <<>> THEN name
    ELSE NormalizeLoop(ReplaceAll(name, <<Head(from)>>, <<NormalizeTo>>), Tail(from))

Normalize(name) == NormalizeLoop(name, NormalizeFrom)

(***************************************************************************)
(* runUnleash, runWithCancel, cleanUp, run, Coverage.Run                   *)
(***************************************************************************)
OrigDir == <<"/", "o">>
TargetDir == <<"/", "t">>
ArgsSet == {<<>>, <<TargetDir>>}

\* report.Results{} holds no mutant
EmptyResults == 0

StageOrder == <<"init", "download", "coverage", "parse", "dealer", "mutator">>
RunPositions == {"modInit", "download", "coverage", "getProfile", "dealer",
                 "mutatorNew", "mutator"}

\* the derived context c of runWithCancel is done once ctx is, or once
\* cancel() was called
CDone == ctxDone \/ cancelCalled

IdleRun ==
    /\ pc = "idle" /\ args = <<>> /\ cwd = OrigDir /\ currPath = <<>> /\ runDir = <<>>
    /\ workDir = "none" /\ wg = 0 /\ doneCalls = 0 /\ cancelled = FALSE
    /\ sawCancelled = FALSE /\ err = "nil" /\ results = EmptyResults
    /\ retVal = "none" /\ reported = <<>> /\ restore = "none" /\ removeTried = FALSE
    /\ ctxDone = FALSE /\ cancelCalled = FALSE /\ cancelInRun = FALSE
    /\ rpc = "idle" /\ stages = <<>> /\ processed = 0 /\ now = 0 /\ runStart = 0
    /\ start = 0 /\ elapsed = 0 /\ covElapsed = 0 /\ dlDur = 0 /\ testDur = 0
    /\ wpc = "none"
IdleParse == profiles = <<>> /\ status = <<>> /\ parsed = FALSE
IdlePath == fileName = <<>> /\ modName = <<>> /\ pkgDir = <<>> /\ relPath = <<>>
            /\ pathDone = FALSE
IdleFlag == flagName = <<>> /\ normName = <<>> /\ normCalls = 0

Init ==
    /\ args \in ArgsSet
    /\ pc = "changePath" /\ cwd = OrigDir /\ currPath = <<>> /\ runDir = <<>>
    /\ workDir = "none" /\ wg = 0 /\ doneCalls = 0 /\ cancelled = FALSE
    /\ sawCancelled = FALSE /\ err = "nil" /\ results = EmptyResults
    /\ retVal = "none" /\ reported = <<>> /\ restore = "none" /\ removeTried = FALSE
    /\ ctxDone = FALSE /\ cancelCalled = FALSE /\ cancelInRun = FALSE
    /\ rpc = "idle" /\ stages = <<>> /\ processed = 0 /\ now = 0 /\ runStart = 0
    /\ start = 0 /\ elapsed = 0 /\ covElapsed = 0 /\ dlDur = 0 /\ testDur = 0
    /\ wpc = "none"
    /\ IdleParse /\ IdlePath /\ IdleFlag

runnerVars == <<rpc, stages, processed, now, runStart, start, elapsed, covElapsed,
                dlDur, testDur, err, results>>
otherVars == <<parseVars, pathVars, flagVars>>

\* changePath(args, os.Chdir, os.Getwd), lines 90-93 and 163-180: cp is an
\* absolute path, so chdir(cp) is always called.
ChangePath ==
    /\ pc = "changePath"
    /\ \E getwdOk \in BOOLEAN, chdirOk \in BOOLEAN :
         LET cp == IF Len(args) > 0 THEN args[1] ELSE cwd IN
         IF ~getwdOk
         THEN /\ retVal' = "errGetwd" /\ pc' = "done"
              /\ UNCHANGED <<cwd, currPath, runDir>>
         ELSE IF ~chdirOk
         THEN /\ retVal' = "errChdir" /\ pc' = "done"
              /\ UNCHANGED <<cwd, currPath, runDir>>
         ELSE /\ cwd' = cp /\ currPath' = cp /\ runDir' = cwd
              /\ pc' = "mkdirTemp" /\ UNCHANGED retVal
    /\ UNCHANGED <<args, workDir, wg, doneCalls, cancelled, sawCancelled, reported,
                   restore, removeTried, ctxDone, cancelCalled, cancelInRun, wpc>>
    /\ UNCHANGED <<runnerVars, otherVars>>

\* os.MkdirTemp, lines 95-99: on failure runUnleash returns before cleanUp is
\* deferred.
MkdirTemp ==
    /\ pc = "mkdirTemp"
    /\ \E ok \in BOOLEAN :
         IF ok
         THEN workDir' = "created" /\ pc' = "go" /\ UNCHANGED retVal
         ELSE retVal' = "errMkdir" /\ pc' = "done" /\ UNCHANGED workDir
    /\ UNCHANGED <<args, cwd, currPath, runDir, wg, doneCalls, cancelled, sawCancelled,
                   reported, restore, removeTried, ctxDone, cancelCalled, cancelInRun,
                   wpc>>
    /\ UNCHANGED <<runnerVars, otherVars>>

\* wg.Add(1); cancelled := false; go runWithCancel(...), lines 101-109
GoRunWithCancel ==
    /\ pc = "go"
    /\ wg' = wg + 1 /\ cancelled' = FALSE /\ rpc' = "withCancel" /\ pc' = "wait"
    /\ UNCHANGED <<args, cwd, currPath, runDir, workDir, doneCalls, sawCancelled, err,
                   results, retVal, reported, restore, removeTried, ctxDone,
                   cancelCalled, cancelInRun, stages, processed, now, runStart, start,
                   elapsed, covElapsed, dlDur, testDur, wpc>>
    /\ UNCHANGED otherVars

WaitReturnsAlways(w) == TRUE

\* wg.Wait() returns when the counter is zero
WaitReturns(w) == w = 0

\* wg.Wait(), line 110
Wait ==
    /\ pc = "wait" /\ WaitReturns(wg)
    /\ pc' = "check"
    /\ UNCHANGED <<args, cwd, currPath, runDir, workDir, wg, doneCalls, cancelled,
                   sawCancelled, retVal, reported, restore, removeTried, ctxDone,
                   cancelCalled, cancelInRun, wpc>>
    /\ UNCHANGED <<runnerVars, otherVars>>

\* The read of cancelled at line 114 is not ordered with the watcher's write
\* (line 108) by any synchronisation: once the write happened the read may
\* return either value; before it, the initial false.
ObservedCancelled == IF cancelled THEN {TRUE, FALSE} ELSE {FALSE}

ReturnsOnErrOnly(e, c) == e # "nil"

\* lines 111-116: runUnleash returns without calling report.Do
ReturnsWithoutReport(e, c) == e # "nil" \/ c

\* lines 111-116
Check ==
    /\ pc = "check"
    /\ \E seen \in (IF err # "nil" THEN {FALSE} ELSE ObservedCancelled) :
         /\ sawCancelled' = seen
         /\ IF ReturnsWithoutReport(err, seen)
            THEN retVal' = err /\ pc' = "cleanUp"
            ELSE pc' = "report" /\ UNCHANGED retVal
    /\ UNCHANGED <<args, cwd, currPath, runDir, workDir, wg, doneCalls, cancelled,
                   reported, restore, removeTried, ctxDone, cancelCalled, cancelInRun,
                   wpc>>
    /\ UNCHANGED <<runnerVars, otherVars>>

\* return report.Do(results), line 118
Report ==
    /\ pc = "report"
    /\ \E r \in {"nil", "errReport"} : retVal' = r
    /\ reported' = <<results>> /\ pc' = "cleanUp"
    /\ UNCHANGED <<args, cwd, currPath, runDir, workDir, wg, doneCalls, cancelled,
                   sawCancelled, restore, removeTried, ctxDone, cancelCalled,
                   cancelInRun, wpc>>
    /\ UNCHANGED <<runnerVars, otherVars>>

RemovesIfRestored(chdirOk) == chdirOk

\* cleanUp calls os.RemoveAll(wd) whatever os.Chdir(rd) returned
CleanUpRemoves(chdirOk) == TRUE

\* the deferred cleanUp(workDir, runDir), lines 99 and 134-141
CleanUp ==
    /\ pc = "cleanUp"
    /\ \E chdirOk \in BOOLEAN, removeOk \in BOOLEAN :
         /\ restore' = IF chdirOk THEN "ok" ELSE "failed"
         /\ cwd' = IF chdirOk THEN runDir ELSE cwd
         /\ removeTried' = CleanUpRemoves(chdirOk)
         /\ workDir' = IF CleanUpRemoves(chdirOk) /\ removeOk THEN "removed" ELSE workDir
    /\ pc' = "done"
    /\ UNCHANGED <<args, currPath, runDir, wg, doneCalls, cancelled, sawCancelled,
                   retVal, reported, ctxDone, cancelCalled, cancelInRun, wpc>>
    /\ UNCHANGED <<runnerVars, otherVars>>

mainOnly == <<pc, args, cwd, currPath, runDir, workDir, sawCancelled, retVal, reported,
              restore, removeTried>>
ctxVars == <<ctxDone, cancelCalled, cancelInRun>>

\* c, cancel := context.WithCancel(ctx); go func() {...}(), lines 123-129
WithCancel ==
    /\ rpc = "withCancel"
    /\ wpc' = "wait" /\ rpc' = "modInit"
    /\ UNCHANGED <<mainOnly, ctxVars, wg, doneCalls, cancelled, err, results, stages,
                   processed, now, runStart, start, elapsed, covElapsed, dlDur, testDur>>
    /\ UNCHANGED otherVars

ContinuesAnyway(ok, next) == next

\* every stage of run and of Coverage.Run returns its error at once
StageNext(ok, next) == IF ok THEN next ELSE "wgDone"

\* mod, err := gomodule.Init(currPath), lines 144-147
ModInit ==
    /\ rpc = "modInit"
    /\ stages' = Append(stages, "init")
    /\ \E ok \in BOOLEAN, d \in 0..MaxDur :
         /\ now' = now + d
         /\ rpc' = StageNext(ok, "download")
         /\ IF ok THEN UNCHANGED <<err, results>>
            ELSE err' = "errModule" /\ results' = EmptyResults
    /\ UNCHANGED <<mainOnly, ctxVars, wg, doneCalls, cancelled, processed, runStart,
                   start, elapsed, covElapsed, dlDur, testDur, wpc>>
    /\ UNCHANGED otherVars

\* c.downloadModules(), lines 148-153, 322-326 and 360-366
DownloadModules ==
    /\ rpc = "download"
    /\ stages' = Append(stages, "download")
    /\ runStart' = now
    /\ \E ok \in BOOLEAN, d \in 0..MaxDur :
         /\ now' = now + d /\ dlDur' = d
         /\ rpc' = StageNext(ok, "coverage")
         /\ IF ok THEN UNCHANGED <<err, results, covElapsed>>
            ELSE err' = "errDownload" /\ results' = EmptyResults /\ covElapsed' = 0
    /\ UNCHANGED <<mainOnly, ctxVars, wg, doneCalls, cancelled, processed, start,
                   elapsed, testDur, wpc>>
    /\ UNCHANGED otherVars

MeasureFromRunStart(tRun, tTest) == tRun

\* start := time.Now() is taken right before cmd.Run() of the test command
MeasureStart(tRun, tTest) == tTest

\* c.executeCoverage(), lines 327-331 and 368-383
ExecuteCoverage ==
    /\ rpc = "coverage"
    /\ stages' = Append(stages, "coverage")
    /\ start' = MeasureStart(runStart, now)
    /\ \E ok \in BOOLEAN, d \in 0..MaxDur :
         /\ now' = now + d /\ testDur' = d
         /\ rpc' = StageNext(ok, "getProfile")
         /\ IF ok
            THEN elapsed' = now' - start' /\ UNCHANGED <<err, results, covElapsed>>
            ELSE /\ elapsed' = 0
                 /\ err' = "errExecute" /\ results' = EmptyResults /\ covElapsed' = 0
    /\ UNCHANGED <<mainOnly, ctxVars, wg, doneCalls, cancelled, processed, runStart,
                   dlDur, wpc>>
    /\ UNCHANGED otherVars

\* c.getProfile() and the return of Coverage.Run, lines 332-337 and 340-354
GetProfile ==
    /\ rpc = "getProfile"
    /\ stages' = Append(stages, "parse")
    /\ \E ok \in BOOLEAN :
         /\ rpc' = StageNext(ok, "dealer")
         /\ IF ok
            THEN covElapsed' = elapsed /\ UNCHANGED <<err, results>>
            ELSE covElapsed' = 0 /\ err' = "errProfile" /\ results' = EmptyResults
    /\ UNCHANGED <<mainOnly, ctxVars, wg, doneCalls, cancelled, processed, now, runStart,
                   start, elapsed, dlDur, testDur, wpc>>
    /\ UNCHANGED otherVars

\* d := workdir.NewDealer(workDir, mod.Root), line 155
NewDealer ==
    /\ rpc = "dealer"
    /\ stages' = Append(stages, "dealer")
    /\ rpc' = "mutatorNew"
    /\ UNCHANGED <<mainOnly, ctxVars, wg, doneCalls, cancelled, err, results, processed,
                   now, runStart, start, elapsed, covElapsed, dlDur, testDur, wpc>>
    /\ UNCHANGED otherVars

\* mut := mutator.New(mod, p, d); mut.Run(ctx) is entered, lines 157-158
MutatorStart ==
    /\ rpc = "mutatorNew"
    /\ stages' = Append(stages, "mutator")
    /\ processed' = 0
    /\ rpc' = "mutator"
    /\ UNCHANGED <<mainOnly, ctxVars, wg, doneCalls, cancelled, err, results, now,
                   runStart, start, elapsed, covElapsed, dlDur, testDur, wpc>>
    /\ UNCHANGED otherVars

\* the mutator tests one more mutant; none is started once c is done
MutatorStep ==
    /\ rpc = "mutator" /\ processed < TotalMutants /\ ~CDone
    /\ processed' = processed + 1
    /\ UNCHANGED <<mainOnly, ctxVars, wg, doneCalls, cancelled, err, results, rpc, stages,
                   now, runStart, start, elapsed, covElapsed, dlDur, testDur, wpc>>
    /\ UNCHANGED otherVars

\* mut.Run returns when every mutant was tested or c is done
MutatorRunReturns == processed = TotalMutants \/ CDone

\* mut.Run returns and run returns (results, nil), which the runner closure
\* stores: lines 106 and 158-160
MutatorReturn ==
    /\ rpc = "mutator" /\ MutatorRunReturns
    /\ results' = processed /\ err' = "nil"
    /\ rpc' = "wgDone"
    /\ UNCHANGED <<mainOnly, ctxVars, wg, doneCalls, cancelled, stages, processed, now,
                   runStart, start, elapsed, covElapsed, dlDur, testDur, wpc>>
    /\ UNCHANGED otherVars

\* wg.Done(), line 131
WgDone ==
    /\ rpc = "wgDone"
    /\ wg' = wg - 1 /\ doneCalls' = doneCalls + 1
    /\ rpc' = "end"
    /\ UNCHANGED <<mainOnly, ctxVars, cancelled, err, results, stages, processed, now,
                   runStart, start, elapsed, covElapsed, dlDur, testDur, wpc>>
    /\ UNCHANGED otherVars

\* <-ctx.Done() returns; log.Infof, lines 125-126
WatcherWake ==
    /\ wpc = "wait" /\ ctxDone
    /\ wpc' = "cancel"
    /\ UNCHANGED <<mainOnly, ctxVars, runnerVars, wg, doneCalls, cancelled>>
    /\ UNCHANGED otherVars

\* cancel(), line 127
WatcherCancel ==
    /\ wpc = "cancel"
    /\ cancelCalled' = TRUE /\ wpc' = "onCancel"
    /\ UNCHANGED <<mainOnly, runnerVars, wg, doneCalls, cancelled, ctxDone, cancelInRun>>
    /\ UNCHANGED otherVars

\* onCancel(): cancelled = true, lines 107-109 and 128
WatcherOnCancel ==
    /\ wpc = "onCancel"
    /\ cancelled' = TRUE /\ wpc' = "end"
    /\ UNCHANGED <<mainOnly, ctxVars, runnerVars, wg, doneCalls>>
    /\ UNCHANGED otherVars

\* the caller of runUnleash cancels ctx (a signal arrives)
CancelCtx ==
    /\ ~ctxDone /\ pc # "done"
    /\ ctxDone' = TRUE
    /\ cancelInRun' = (rpc \in RunPositions)
    /\ UNCHANGED <<mainOnly, runnerVars, wg, doneCalls, cancelled, cancelCalled, wpc>>
    /\ UNCHANGED otherVars

Next ==
    \/ ChangePath \/ MkdirTemp \/ GoRunWithCancel \/ Wait \/ Check \/ Report \/ CleanUp
    \/ WithCancel \/ ModInit \/ DownloadModules \/ ExecuteCoverage \/ GetProfile
    \/ NewDealer \/ MutatorStart \/ MutatorStep \/ MutatorReturn \/ WgDone
    \/ WatcherWake \/ WatcherCancel \/ WatcherOnCancel \/ CancelCtx

Spec == Init /\ [][Next]_vars

(***************************************************************************)
(* Coverage.parse applied to the profiles of a coverage report             *)
(***************************************************************************)
Counts == {0, 2}

\* a block of the report starting at line l, executed n times
ReportBlock(l, n) ==
    [StartLine |-> l, StartCol |-> l + 10, EndLine |-> l + 1, EndCol |-> l + 20,
     NumStmt |-> 1, Count |-> n]

\* cover.ParseProfilesFromReader returns the blocks of a file sorted by
\* position, one per position: the lines present, in increasing order.
RECURSIVE BlocksFrom(_, _)
BlocksFrom(c, l) ==
    IF l > MaxLine THEN <<>>
    ELSE (IF c[l] \in Counts THEN <<ReportBlock(l, c[l])>> ELSE <<>>)
         \o BlocksFrom(c, l + 1)

BlockSeqs == {BlocksFrom(c, 1) : c \in [1..MaxLine -> Counts \cup {-1}]}

\* the files of the report, in the order ParseProfilesFromReader sorts them
CoverFiles == << <<"m", "/", "a">>, <<"m", "/", "a", "/", "a">>,
                 <<"m", "/", "m", "/", "a">> >>

RECURSIVE ProfilesFrom(_, _)
ProfilesFrom(f, i) ==
    IF i > Len(CoverFiles) THEN <<>>
    ELSE (IF f[i] # <<>> THEN <<[FileName |-> CoverFiles[i], Blocks |-> f[i]]>>
          ELSE <<>>)
         \o ProfilesFrom(f, i + 1)

ProfileSets == {ProfilesFrom(f, 1) : f \in [1..Len(CoverFiles) -> BlockSeqs]}

ModNames == { <<"m">>, <<"a", "/", "m">> }
PkgDirs == { <<>>, <<"a">> }

InitParse ==
    /\ IdleRun /\ IdleFlag
    /\ profiles \in ProfileSets
    /\ modName = <<"m">> /\ pkgDir \in PkgDirs
    /\ fileName = <<>> /\ relPath = <<>> /\ pathDone = FALSE
    /\ status = EmptyProfile /\ parsed = FALSE

\* Coverage.parse, lines 385-408
Parse ==
    /\ ~parsed
    /\ status' = parse(profiles, modName, pkgDir)
    /\ parsed' = TRUE
    /\ UNCHANGED <<profiles, runVars, pathVars, flagVars>>

NextParse == Parse

SpecParse == InitParse /\ [][NextParse]_vars

(***************************************************************************)
(* Coverage.removeModuleFromPath applied to the file names of a report     *)
(***************************************************************************)
Segments == { <<"m">>, <<"a">>, <<"a", "m">> }

\* the file names of the packages of module mod, as `go test -coverprofile`
\* writes them: the module name, then the path below the module root
FileNames(mod) ==
    {Join(<<mod>> \o segs) : segs \in SeqsUpTo(Segments, MaxDepth) \ {<<>>}}

InitPath ==
    /\ IdleRun /\ IdleFlag /\ IdleParse
    /\ modName \in ModNames /\ pkgDir \in PkgDirs
    /\ fileName \in FileNames(modName)
    /\ relPath = <<>> /\ pathDone = FALSE

\* Coverage.removeModuleFromPath, lines 410-415
RemoveModule ==
    /\ ~pathDone
    /\ relPath' = removeModuleFromPath(fileName, modName, pkgDir)
    /\ pathDone' = TRUE
    /\ UNCHANGED <<fileName, modName, pkgDir, runVars, parseVars, flagVars>>

NextPath == RemoveModule

SpecPath == InitPath /\ [][NextPath]_vars

(***************************************************************************)
(* The normalize function setFlagsOnCmd installs, applied to flag names    *)
(***************************************************************************)
FlagChars == {".", "_", "-", "a"}

InitFlag ==
    /\ IdleRun /\ IdleParse /\ IdlePath
    /\ flagName \in SeqsUpTo(FlagChars, MaxLen)
    /\ normName = <<>> /\ normCalls = 0

\* the normalize function, lines 184-192, called on a flag name
NormalizeFlag ==
    /\ normCalls = 0
    /\ normName' = Normalize(flagName)
    /\ normCalls' = 1
    /\ UNCHANGED <<flagName, runVars, parseVars, pathVars>>

\* pflag calls the normalize function again on a name it already normalized
Renormalize ==
    /\ normCalls = 1
    /\ flagName' = normName
    /\ normName' = Normalize(normName)
    /\ normCalls' = 2
    /\ UNCHANGED <<runVars, parseVars, pathVars>>

NextFlag == NormalizeFlag \/ Renormalize

SpecFlag == InitFlag /\ [][NextFlag]_vars

(***************************************************************************)
(* Properties                                                              *)
(***************************************************************************)
Range(f) == {f[i] : i \in DOMAIN f}
Returned == pc \in {"cleanUp", "done"}
FatalErrs == {"errModule", "errDownload", "errExecute", "errProfile"}

C2_WorkingDirRestoredOnEveryExit ==
    (pc = "done" /\ currPath # runDir) => restore # "none"

\* C3: once the work root was created, runUnleash does not return without
\* having called os.RemoveAll on it, also when os.Chdir failed in cleanUp.
C3_WorkRootRemovalAttempted ==
    (pc = "done" /\ workDir # "none") => removeTried

C3_Witness ==
    pc = "done" /\ restore = "failed" /\ removeTried /\ workDir = "removed"

\* C6: the stages of run start in the fixed order; a failed module init or
\* coverage stage is the last stage started, leaves err set and results
\* empty, and runUnleash returns that error without calling report.Do.
C6_StagesFailFast ==
    /\ IsPrefix(stages, StageOrder)
    /\ err = "errModule" => stages = SubSeq(StageOrder, 1, 1)
    /\ err = "errDownload" => stages = SubSeq(StageOrder, 1, 2)
    /\ err = "errExecute" => stages = SubSeq(StageOrder, 1, 3)
    /\ err = "errProfile" => stages = SubSeq(StageOrder, 1, 4)
    /\ err \in FatalErrs =>
         /\ results = EmptyResults /\ reported = <<>> /\ pc # "report"
         /\ rpc \in {"wgDone", "end"}
         /\ Returned => retVal = err

C6_Witness ==
    pc = "done" /\ err = "errProfile" /\ retVal = "errProfile" /\ ctxDone

\* C7: the coverage test run starts when the download has completed, the
\* elapsed time of a successful Coverage.Run is the duration of the test run
\* alone, and it is 0 when the test run failed.
C7_ElapsedMeasuresOnlyTestRun ==
    /\ "coverage" \in Range(stages) => start = runStart + dlDur
    /\ "parse" \in Range(stages) => elapsed = testDur
    /\ "dealer" \in Range(stages) => covElapsed = testDur
    /\ err = "errExecute" => (elapsed = 0 /\ covElapsed = 0)

C7_Witness ==
    "dealer" \in Range(stages) /\ dlDur > 0 /\ testDur > 0 /\ covElapsed = testDur

\* C9: when ctx was cancelled while run was executing, runUnleash reads
\* cancelled as true after wg.Wait and does not call report.Do.
C9_CancelSeenAfterWait ==
    (cancelInRun /\ err = "nil" /\ pc \in {"report", "cleanUp", "done"})
        => (sawCancelled /\ reported = <<>>)

\* C10: runUnleash passes wg.Wait, and cleanUp runs, only after the runner
\* returned, and wg.Done is called exactly once, after the runner returned.
C10_CleanUpAfterRunReturned ==
    /\ (restore # "none" \/ removeTried) => rpc = "end"
    /\ pc \in {"check", "report", "cleanUp"} => rpc = "end"
    /\ (pc = "done" /\ workDir # "none") => rpc = "end"
    /\ doneCalls = (IF rpc = "end" THEN 1 ELSE 0)

C10_Witness ==
    pc = "done" /\ cancelInRun /\ restore = "ok" /\ doneCalls = 1 /\ rpc = "end"

\* the blocks of the profiles ps stored under key k, in report order, that
\* were executed at least once
RECURSIVE CoveredUnder(_, _, _, _)
CoveredUnder(ps, k, mod, pkg) ==
    IF ps = <<>> THEN <<>>
    ELSE LET p == Head(ps)
             hit == SelectSeq(p.Blocks, LAMBDA b : b.Count > 0)
             mine == IF removeModuleFromPath(p.FileName, mod, pkg) = k
                     THEN [i \in 1..Len(hit) |->
                              [StartLine |-> hit[i].StartLine, StartCol |-> hit[i].StartCol,
                               EndLine |-> hit[i].EndLine, EndCol |-> hit[i].EndCol]]
                     ELSE <<>>
         IN  mine \o CoveredUnder(Tail(ps), k, mod, pkg)

\* C4: the Profile parse returns holds, under the key of each file, exactly
\* the blocks of that file with count > 0, coordinates unchanged, and has no
\* entry that only blocks with count 0 would account for.
C4_ParseKeepsExactlyCoveredBlocks ==
    parsed =>
        /\ DOMAIN status =
             {removeModuleFromPath(profiles[i].FileName, modName, pkgDir) :
                 i \in {j \in 1..Len(profiles) :
                           \E n \in 1..Len(profiles[j].Blocks) :
                               profiles[j].Blocks[n].Count > 0}}
        /\ \A k \in DOMAIN status :
             status[k] = CoveredUnder(profiles, k, modName, pkgDir)

C4_Witness ==
    /\ parsed
    /\ \E i \in 1..Len(profiles) :
         \A n \in 1..Len(profiles[i].Blocks) : profiles[i].Blocks[n].Count = 0
    /\ \E i \in 1..Len(profiles) :
         /\ \E n \in 1..Len(profiles[i].Blocks) : profiles[i].Blocks[n].Count = 0
         /\ \E n \in 1..Len(profiles[i].Blocks) : profiles[i].Blocks[n].Count > 0
    /\ status # EmptyProfile

\* C5: the key of a file is its name with only the leading module name
\* stripped, made relative to the package directory.
C5_KeyStripsOnlyLeadingModule ==
    pathDone => relPath = Rel(pkgDir, StripModuleLeading(fileName, modName)).path

\* C8: the normalized name has the length of the name, "-" wherever the name
\* has "." or "_" and the name's character elsewhere, and normalizing it
\* again returns it unchanged.
C8_NormalizeReplacesSeparatorsOnly ==
    /\ normCalls = 1 =>
         /\ Len(normName) = Len(flagName)
         /\ \A i \in 1..Len(flagName) :
              normName[i] = (IF flagName[i] \in {".", "_"} THEN "-" ELSE flagName[i])
         /\ \A i \in 1..Len(normName) : normName[i] \notin {".", "_"}
    /\ normCalls = 2 => normName = flagName

C8_Witness ==
    /\ normCalls = 2 /\ Len(normName) = 3
    /\ normName[1] = "-" /\ normName[2] = "a" /\ normName[3] = "-"
====
